---- MODULE Spec2Model ----
(***************************************************************************)
(* IndigoGlass Nexus: the model registry (ml_model), its promotion         *)
(* endpoint, the trainer's registration, model assignments and forecast    *)
(* serving, as a state machine over the committed database state and the   *)
(* request sessions in flight.                                             *)
(***************************************************************************)
EXTENDS Integers, Sequences, FiniteSets, TLC

\* ------------------------------------------------------------------ bounds
MaxVersion == 2
NumSessions == 2
MaxTime == 1
MaxAudit == 3
MaxProduct == 1
MaxLocation == 2
MaxDate == 1
MaxAssign == 2
NumRuns == 2
MaxClock == 3
MaxDays == 44
MaxGroups == 2
MaxGap == 1
MaxTestDays == 14
MaxFolds == 5
MaxMetric == 1
MaxEvents == 3
MaxBatch == 2
MaxRows == 2

\* ml_model.model_name: the trainer's default name and one other model
Names == {"demand_forecast", "price_model"}
Versions == 1..MaxVersion
Keys == Names \X Versions
Sessions == 1..NumSessions
\* the `train` processes
Runs == 1..NumRuns
\* what datetime.now(timezone.utc) can return
Times == 1..MaxTime
AdminEmails == {"alice", "bob"}

\* dim_product (sku is unique: a product is named by its sku), dim_location
\* (several locations share a region), dim_date
Products == 1..MaxProduct
Locations == 1..MaxLocation
RegionOf(l) == (l + 1) \div 2
Regions == {RegionOf(l) : l \in Locations}
Dates == 1..MaxDate
\* what a request may name: a sku or region that exists, or 0 for one that
\* does not
Skus == Products \cup {0}
RegionNames == Regions \cup {0}
CacheKeys == Skus \X RegionNames \X Dates

VARIABLES
    registry,     \* ml_model, committed rows: (model_name, version) -> row
    audit,        \* auth_audit_log, committed rows in insertion order
    sess,         \* the request sessions (one AsyncSession per request)
    last,         \* the response of the request that finished last
    assignments,  \* ml_model_assignment, committed rows in insertion order
    cache,        \* the Redis forecast cache: key -> cached response
    runs,         \* the training runs (one process per `train` invocation)
    clock,        \* the wall clock the training job reads, in half seconds
    ml_model,     \* ml_model as the training job writes it: rows in id order
    s3,           \* the model bucket: object path -> the run that wrote it
    raw_sales,    \* the Mongo collection raw_sales: event -> its processed flag
    fact_sales,   \* fact_sales, committed rows in insertion order
    ingest,       \* the ingest_sales task: its position, cursor and transaction
    holiday_df    \* the frame add_holiday_features has returned

vars == <<registry, audit, sess, last, assignments, cache,
          runs, clock, ml_model, s3,
          raw_sales, fact_sales, ingest, holiday_df>>
serving == <<assignments, cache>>
training == <<runs, clock, ml_model, s3>>
curated == <<raw_sales, fact_sales, ingest, holiday_df>>

\* ------------------------------------------------------------------ rows
NoRow == [status |-> "absent", promoted_at |-> 0, promoted_by |-> "null"]

\* a registration that would insert its row already prod
StagedAsProd == [status |-> "prod", promoted_at |-> 0, promoted_by |-> "null"]
\* the row register_model inserts: status 'staged', promoted_* NULL
StagedRow == [status |-> "staged", promoted_at |-> 0, promoted_by |-> "null"]

\* ForecastResponse; model_version "none" is written 0, and an entry absent
\* from the cache is NoResponse
NoResponse == [model_version |-> -1, model_name |-> "null", forecasts |-> <<>>]
EmptyForecast ==
    [model_version |-> 0, model_name |-> "No model assigned", forecasts |-> <<>>]

IdleSession ==
    [pc |-> "idle", op |-> "none", name |-> "null", version |-> 0, user |-> "null",
     previous_status |-> "null", locked |-> {}, promoted_at |-> 0,
     sku |-> 0, region |-> 0, start_date |-> 0, end_date |-> 0,
     include_actuals |-> FALSE, response |-> NoResponse,
     product_id |-> 0, location_id |-> 0, existing |-> {}]

NoRequest ==
    [op |-> "none", code |-> 0, previous_status |-> "null",
     new_status |-> "null", body |-> NoResponse]

\* the response of a finished request: HTTP status and, for a promotion,
\* PromoteModelResponse.previous_status / new_status
Finished(op, code, prev, new) ==
    [op |-> op, code |-> code, previous_status |-> prev, new_status |-> new,
     body |-> NoResponse]

Served(code, body) ==
    [op |-> "forecast", code |-> code, previous_status |-> "null",
     new_status |-> "null", body |-> body]

\* The database as the sessions see it.  get_session opens one transaction
\* per request and commits after the handler returned; the engine is created
\* without an isolation level and no statement takes a lock of its own
\* (no FOR UPDATE).  The model keeps what every isolation level gives: a
\* SELECT reads committed rows, an UPDATE locks the rows it changes until the
\* transaction ends and waits for rows another transaction has changed, and a
\* commit publishes all writes of the transaction at once.  It adds no lock on
\* rows a statement only scanned (the next-key locks of InnoDB at REPEATABLE
\* READ): those only remove interleavings, by blocking or by a deadlock
\* rollback, which SessionRollback covers.
\* rows another session has updated and not yet committed (row locks)
LockedByOthers(s) == UNION {sess[t].locked : t \in Sessions \ {s}}

\* ------------------------------------------------------------ promote_model
\* select(MLModel).where(model_name == .., version == ..).scalar_one_or_none()
FindModel(n, v) == registry[<<n, v>>]

\* a handler without the `if not model` check
NotFoundNever(model) == FALSE
\* if not model: 404
NotFound(model) == model.status = "absent"

\* a handler without the `model.status == "prod"` check
AlreadyProdNever(model) == FALSE
\* if model.status == "prod": 400
AlreadyProd(model) == model.status = "prod"

\* an UPDATE without the model_name condition, and a handler without the UPDATE
ArchiveAnyName(n) == {k \in Keys : registry[k].status = "prod"}
ArchiveNothing(n) == {}
\* update(MLModel).where(model_name == .., status == "prod")
ArchiveMatches(n) == {k \in Keys : k[1] = n /\ registry[k].status = "prod"}

\* .values(status="archived")
ArchivedRow(row) == [row EXCEPT !.status = "archived"]

\* a handler that stamps the target and leaves its status alone
PromotedRowKeepsStatus(row, at, by) ==
    [row EXCEPT !.promoted_at = at, !.promoted_by = by]
\* model.status = "prod"; model.promoted_at = now; model.promoted_by = email
PromotedRow(row, at, by) ==
    [row EXCEPT !.status = "prod", !.promoted_at = at, !.promoted_by = by]

\* first await: the target is read; 404 and 400 end the request, and the
\* session rolls back having written nothing
PromoteSelect(s, n, v, u) ==
    /\ sess[s].pc = "idle"
    /\ LET model == FindModel(n, v) IN
        IF NotFound(model) THEN
            /\ last' = Finished("promote", 404, "null", "null")
            /\ UNCHANGED <<registry, audit, sess, serving>>
        ELSE IF AlreadyProd(model) THEN
            /\ last' = Finished("promote", 400, "null", "null")
            /\ UNCHANGED <<registry, audit, sess, serving>>
        ELSE
            /\ Len(audit) + Cardinality({t \in Sessions :
                   sess[t].op = "promote"}) < MaxAudit
            /\ sess' = [sess EXCEPT ![s] =
                   [IdleSession EXCEPT !.pc = "selected", !.op = "promote",
                        !.name = n,
                        !.version = v, !.user = u,
                        !.previous_status = model.status]]
            /\ UNCHANGED <<registry, audit, last, serving>>
    /\ UNCHANGED <<training, curated>>

\* second await: the bulk UPDATE archives the committed prod rows of the name
\* (it waits while another session holds one of them); then the handler sets
\* the target's attributes, adds the audit row and returns
PromoteArchive(s) ==
    /\ sess[s].pc = "selected"
    /\ LET hit == ArchiveMatches(sess[s].name) IN
        /\ hit \cap LockedByOthers(s) = {}
        /\ \E at \in Times :
            sess' = [sess EXCEPT ![s].pc = "returned", ![s].locked = hit,
                                 ![s].promoted_at = at]
    /\ UNCHANGED <<registry, audit, last, serving>>
    /\ UNCHANGED <<training, curated>>

AuditRow(s) ==
    [action |-> "promote_model",
     entity_id |-> <<sess[s].name, sess[s].version>>,
     user |-> sess[s].user,
     previous_status |-> sess[s].previous_status,
     new_status |-> "prod"]

\* get_session after the handler returned: flush (UPDATE of the target row,
\* INSERT of the audit row) and COMMIT
PromoteCommit(s) ==
    /\ sess[s].pc = "returned"
    /\ LET target == <<sess[s].name, sess[s].version>> IN
        /\ target \notin LockedByOthers(s)
        /\ registry' = [k \in Keys |->
               IF k = target
                   THEN PromotedRow(registry[k], sess[s].promoted_at, sess[s].user)
               ELSE IF k \in sess[s].locked THEN ArchivedRow(registry[k])
               ELSE registry[k]]
        /\ audit' = Append(audit, AuditRow(s))
        /\ last' = Finished("promote", 200,
                            sess[s].previous_status, "prod")
    /\ sess' = [sess EXCEPT ![s] = IdleSession]
    /\ UNCHANGED serving
    /\ UNCHANGED <<training, curated>>

\* get_session's except branch: a database error at an await (lost
\* connection, lock wait timeout, deadlock victim) rolls the session back
SessionRollback(s) ==
    /\ sess[s].pc # "idle"
    /\ last' = Finished(sess[s].op, 500, "null", "null")
    /\ sess' = [sess EXCEPT ![s] = IdleSession]
    /\ UNCHANGED <<registry, audit, serving>>
    /\ UNCHANGED <<training, curated>>

\* ------------------------------------------------------------ security.py
\* what a request carries in its Authorization header: nothing, a token that
\* jwt.decode rejects (bad signature, expired), or a token that decodes to a
\* TokenPayload with its type, role and email
Credentials ==
    {[token |-> "none", type |-> "null", role |-> "null", email |-> "null"],
     [token |-> "invalid", type |-> "access", role |-> "admin", email |-> "mallory"],
     [token |-> "valid", type |-> "refresh", role |-> "admin", email |-> "rita"],
     [token |-> "valid", type |-> "access", role |-> "viewer", email |-> "victor"],
     [token |-> "valid", type |-> "access", role |-> "analyst", email |-> "ann"],
     [token |-> "valid", type |-> "access", role |-> "admin", email |-> "alice"]}

\* get_current_user: the status codes it can end with (200: it returns the
\* payload).  Without a header HTTPBearer itself rejects, with 403 or 401
\* depending on the FastAPI version; decode_token raises 401 on a JWTError;
\* a token whose type is not "access" gets 401.
get_current_user(credentials) ==
    IF credentials.token = "none" THEN {401, 403}
    ELSE IF credentials.token = "invalid" THEN {401}
    ELSE IF credentials.type # "access" THEN {401}
    ELSE {200}

\* a role check that lets every role through
RoleAllowedAlways(role, allowed_roles) == TRUE
\* current_user.role in allowed_roles
RoleAllowed(role, allowed_roles) == role \in allowed_roles

\* require_role(*allowed_roles): role_checker depends on get_current_user and
\* raises 403 for a role outside allowed_roles
require_role(allowed_roles, credentials) ==
    IF 200 \notin get_current_user(credentials)
        THEN get_current_user(credentials)
    ELSE IF ~RoleAllowed(credentials.role, allowed_roles) THEN {403}
    ELSE {200}

\* require_admin = require_role(Role.ADMIN)
require_admin(credentials) == require_role({"admin"}, credentials)

\* POST /models/promote: FastAPI resolves Depends(require_admin) before it
\* calls the handler; an HTTPException from the dependency is the response
PromoteRequest(s, n, v, credentials) ==
    \E code \in require_admin(credentials) :
        IF code = 200 THEN PromoteSelect(s, n, v, credentials.email)
        ELSE
            /\ sess[s].pc = "idle"
            /\ last' = Finished("promote", code, "null", "null")
            /\ UNCHANGED <<registry, audit, sess, serving>>
            /\ UNCHANGED <<training, curated>>

\* ------------------------------------------------------------ register_model
\* INSERT INTO ml_model (...) VALUES (..., 'staged', ...); the unique key
\* (model_name, version) rejects a duplicate
Register(n, v) ==
    /\ IF registry[<<n, v>>].status = "absent"
         THEN /\ registry' = [registry EXCEPT ![<<n, v>>] = StagedRow]
              /\ last' = Finished("register", 200, "null", "staged")
         ELSE /\ last' = Finished("register", 500, "null", "null")
              /\ UNCHANGED registry
    /\ UNCHANGED <<audit, sess, serving>>
    /\ UNCHANGED <<training, curated>>

\* ------------------------------------------------------------ get_forecast
\* forecast_cache_key(sku, region, end_date.isoformat())
ForecastCacheKey(sku, region, start_date, end_date, include_actuals) ==
    <<sku, region, end_date>>

\* fact_forecast and fact_sales are written by jobs outside this model: one
\* forecast row per (date, product, location, model_version) and one sales
\* row per (date, product, location); an actual_units of None is written -1
ForecastUnits(p, l, v, d) == 10 * v + d
ActualUnits(p, l, d) == 100 + d

\* the rows of forecast_dates in date order, with actual_units filled in from
\* fact_sales when include_actuals
ForecastPoints(p, l, v, start_date, end_date, include_actuals) ==
    [i \in 1..(IF end_date >= start_date THEN end_date - start_date + 1 ELSE 0) |->
        LET d == start_date + i - 1 IN
        [date |-> d, forecast_units |-> ForecastUnits(p, l, v, d),
         actual_units |-> IF include_actuals THEN ActualUnits(p, l, d) ELSE -1]]

\* select(MLModelAssignment, MLModel).join(..).where(product_id == ..,
\* location_id == .., MLModel.status == "prod"): the rows the join returns
AssignedProd(p, l) ==
    {i \in DOMAIN assignments :
        /\ assignments[i].product_id = p
        /\ assignments[i].location_id = l
        /\ registry[assignments[i].model_id].status = "prod"}

\* a handler that would fall back to a default model for an unassigned pair
NoAssignmentServesFirst(p, l, sd, ed, ia) ==
    [model_version |-> 1, model_name |-> "demand_forecast",
     forecasts |-> ForecastPoints(p, l, 1, sd, ed, ia)]
\* the response built when no assignment row is found
NoAssignmentResponse(p, l, sd, ed, ia) == EmptyForecast

\* first await: cache_get; a hit is returned as it is
ForecastCacheGet(s, sku, region, sd, ed, ia) ==
    /\ sess[s].pc = "idle"
    /\ LET cached == cache[ForecastCacheKey(sku, region, sd, ed, ia)] IN
        IF cached # NoResponse THEN
            /\ last' = Served(200, cached)
            /\ UNCHANGED sess
        ELSE
            /\ sess' = [sess EXCEPT ![s] =
                   [IdleSession EXCEPT !.pc = "lookup", !.op = "forecast",
                        !.sku = sku, !.region = region, !.start_date = sd,
                        !.end_date = ed, !.include_actuals = ia]]
            /\ UNCHANGED last
    /\ UNCHANGED <<registry, audit, serving>>
    /\ UNCHANGED <<training, curated>>

\* the database reads of one request: product by sku, a location of the
\* region (.limit(1), any of them), the assignment joined to a prod model
\* (.first(), any of the rows), the forecast rows and the actuals
ForecastQuery(s) ==
    /\ sess[s].pc = "lookup"
    /\ LET r == sess[s] IN
        IF r.sku \notin Products \/ r.region \notin Regions THEN
            /\ last' = Served(404, NoResponse)
            /\ sess' = [sess EXCEPT ![s] = IdleSession]
        ELSE \E l \in {x \in Locations : RegionOf(x) = r.region} :
            LET rows == AssignedProd(r.sku, l) IN
            IF rows = {} THEN
                /\ last' = Served(200, NoAssignmentResponse(r.sku, l,
                               r.start_date, r.end_date, r.include_actuals))
                /\ sess' = [sess EXCEPT ![s] = IdleSession]
            ELSE \E i \in rows :
                LET model == assignments[i].model_id IN
                /\ sess' = [sess EXCEPT ![s].pc = "respond", ![s].response =
                       [model_version |-> model[2], model_name |-> model[1],
                        forecasts |-> ForecastPoints(r.sku, l, model[2],
                            r.start_date, r.end_date, r.include_actuals)]]
                /\ UNCHANGED last
    /\ UNCHANGED <<registry, audit, serving>>
    /\ UNCHANGED <<training, curated>>

\* last await: cache_set(cache_key, response, ttl_seconds=3600); return
ForecastCacheSet(s) ==
    /\ sess[s].pc = "respond"
    /\ LET r == sess[s] IN
        /\ cache' = [cache EXCEPT ![ForecastCacheKey(r.sku, r.region,
               r.start_date, r.end_date, r.include_actuals)] = r.response]
        /\ last' = Served(200, r.response)
    /\ sess' = [sess EXCEPT ![s] = IdleSession]
    /\ UNCHANGED <<registry, audit, assignments>>
    /\ UNCHANGED <<training, curated>>

\* a cache entry expires after its TTL
CacheExpire(c) ==
    /\ cache[c] # NoResponse
    /\ cache' = [cache EXCEPT ![c] = NoResponse]
    /\ UNCHANGED <<registry, audit, sess, last, assignments>>
    /\ UNCHANGED <<training, curated>>

\* ------------------------------------------------------------ assign
\* the unique keys of ml_model_assignment as the migration creates it: the
\* primary key id only (no unique key on the product/location pair)
AssignmentPairIsKey == FALSE

PairRows(p, l) ==
    {i \in DOMAIN assignments :
        assignments[i].product_id = p /\ assignments[i].location_id = l}

\* assign(product_id, location_id, model_id), written the way the handlers of
\* admin.py are: the existing row is read, then updated or a new one added
AssignSelect(s, p, l, m) ==
    /\ sess[s].pc = "idle"
    /\ IF registry[m].status = "absent" THEN
            /\ last' = Finished("assign", 404, "null", "null")
            /\ UNCHANGED sess
       ELSE /\ PairRows(p, l) # {} \/
                   Len(assignments) + Cardinality({t \in Sessions :
                       sess[t].pc = "upsert" /\ sess[t].existing = {}}) < MaxAssign
            /\ sess' = [sess EXCEPT ![s] =
                   [IdleSession EXCEPT !.pc = "upsert", !.op = "assign",
                        !.product_id = p, !.location_id = l, !.name = m[1],
                        !.version = m[2], !.existing = PairRows(p, l)]]
            /\ UNCHANGED last
    /\ UNCHANGED <<registry, audit, serving>>
    /\ UNCHANGED <<training, curated>>

\* flush and COMMIT: the UPDATE of the row read, or the INSERT of a new row,
\* which a unique key on the pair rejects when a row of the pair exists
AssignCommit(s) ==
    /\ sess[s].pc = "upsert"
    /\ LET r == sess[s]
           row == [product_id |-> r.product_id, location_id |-> r.location_id,
                   model_id |-> <<r.name, r.version>>] IN
        IF r.existing # {} THEN
            /\ assignments' = [i \in DOMAIN assignments |->
                   IF i \in r.existing THEN row ELSE assignments[i]]
            /\ last' = Finished("assign", 200, "null", "null")
        ELSE IF AssignmentPairIsKey /\ PairRows(r.product_id, r.location_id) # {} THEN
            /\ last' = Finished("assign", 500, "null", "null")
            /\ UNCHANGED assignments
        ELSE
            /\ assignments' = Append(assignments, row)
            /\ last' = Finished("assign", 200, "null", "null")
    /\ sess' = [sess EXCEPT ![s] = IdleSession]
    /\ UNCHANGED <<registry, audit, cache>>
    /\ UNCHANGED <<training, curated>>

\* ------------------------------------------------------------ features.py
\* A frame is a sequence of rows in frame order; a raw row is
\* [date, product_id, location_id, quantity].  A feature value is a tuple: NaN
\* is the empty tuple, a number x is <<x>>, and a quotient a / b is kept
\* exact as <<a, b>>.
NaN == <<>>

RECURSIVE SeqSum(_)
SeqSum(s) == IF s = <<>> THEN 0 ELSE Head(s) + SeqSum(Tail(s))

RECURSIVE SeqSumSq(_)
SeqSumSq(s) == IF s = <<>> THEN 0 ELSE Head(s) * Head(s) + SeqSumSq(Tail(s))

SeqMin(s) == CHOOSE x \in {s[i] : i \in 1..Len(s)} :
                 \A j \in 1..Len(s) : x <= s[j]
SeqMax(s) == CHOOSE x \in {s[i] : i \in 1..Len(s)} :
                 \A j \in 1..Len(s) : x >= s[j]

SameGroup(r1, r2) ==
    r1.product_id = r2.product_id /\ r1.location_id = r2.location_id

\* a shift over the whole frame, without the groupby
UngroupedSeries(df, i) == [j \in 1..i |-> df[j].quantity]
\* df.groupby(["product_id", "location_id"])["quantity"]: the quantities of
\* the group of row i, in frame order, up to and including row i
GroupSeries(df, i) ==
    LET InGroup(r) == SameGroup(r, df[i])
        rows == SelectSeq(SubSeq(df, 1, i), InGroup)
    IN  [j \in 1..Len(rows) |-> rows[j].quantity]

\* a shift that fills the head of the series: x.shift(lag, fill_value=0)
ShiftZeroFilled(x, lag) == IF Len(x) - lag >= 1 THEN <<x[Len(x) - lag]>> ELSE <<0>>
\* x.shift(lag) at the last position of series x
Shift(x, lag) == IF Len(x) - lag >= 1 THEN <<x[Len(x) - lag]>> ELSE NaN

\* a rolling window that ends at the row itself: no shift(1)
RollingWindowUnshifted(x, window) ==
    SubSeq(x, IF Len(x) - window + 1 > 1 THEN Len(x) - window + 1 ELSE 1, Len(x))
\* x.shift(1).rolling(window, min_periods=1) at the last position of x: the
\* non-NaN values of the window, i.e. the up to `window` values before the row
RollingWindow(x, window) ==
    SubSeq(x, IF Len(x) - window > 1 THEN Len(x) - window ELSE 1, Len(x) - 1)

\* .mean(): NaN under min_periods, else sum / count
RollingMean(x, window) ==
    LET w == RollingWindow(x, window)
    IN  IF Len(w) < 1 THEN NaN ELSE <<SeqSum(w), Len(w)>>
\* .std() (ddof = 1) is NaN below two values; fillna(0) makes it 0.  The
\* variance (n * sum(x^2) - sum(x)^2) / (n * (n - 1)) stands for its root.
RollingStd(x, window) ==
    LET w == RollingWindow(x, window)
        n == Len(w)
    IN  IF n < 2 THEN <<0>>
        ELSE <<n * SeqSumSq(w) - SeqSum(w) * SeqSum(w), n * (n - 1)>>
RollingMinOf(x, window) ==
    LET w == RollingWindow(x, window)
    IN  IF Len(w) < 1 THEN NaN ELSE <<SeqMin(w)>>
RollingMaxOf(x, window) ==
    LET w == RollingWindow(x, window)
    IN  IF Len(w) < 1 THEN NaN ELSE <<SeqMax(w)>>

\* add_lag_features: shift(lag) for lag in [1, 7, 14, 28], and the same-day
\* columns shift(7), shift(14), shift(28)
add_lag_features(x) ==
    [qty_lag_1d |-> Shift(x, 1), qty_lag_7d |-> Shift(x, 7),
     qty_lag_14d |-> Shift(x, 14), qty_lag_28d |-> Shift(x, 28),
     qty_same_dow_1w |-> Shift(x, 7), qty_same_dow_2w |-> Shift(x, 14),
     qty_same_dow_4w |-> Shift(x, 28)]

\* add_rolling_features: mean, std, min, max for window in [7, 14, 28]
add_rolling_features(x) ==
    [qty_rolling_mean_7d |-> RollingMean(x, 7),
     qty_rolling_std_7d |-> RollingStd(x, 7),
     qty_rolling_min_7d |-> RollingMinOf(x, 7),
     qty_rolling_max_7d |-> RollingMaxOf(x, 7),
     qty_rolling_mean_14d |-> RollingMean(x, 14),
     qty_rolling_std_14d |-> RollingStd(x, 14),
     qty_rolling_min_14d |-> RollingMinOf(x, 14),
     qty_rolling_max_14d |-> RollingMaxOf(x, 14),
     qty_rolling_mean_28d |-> RollingMean(x, 28),
     qty_rolling_std_28d |-> RollingStd(x, 28),
     qty_rolling_min_28d |-> RollingMinOf(x, 28),
     qty_rolling_max_28d |-> RollingMaxOf(x, 28)]

\* add_trend_features: x.shift(1) - x.shift(8), the same over x.shift(8) + 1,
\* and qty_rolling_mean_7d / (qty_rolling_mean_28d + 1)
add_trend_features(x) ==
    LET s1 == Shift(x, 1)
        s8 == Shift(x, 8)
        m7 == RollingMean(x, 7)
        m28 == RollingMean(x, 28)
    IN  [qty_wow_change |->
             IF s1 = NaN \/ s8 = NaN THEN NaN ELSE <<s1[1] - s8[1]>>,
         qty_wow_pct_change |->
             IF s1 = NaN \/ s8 = NaN THEN NaN ELSE <<s1[1] - s8[1], s8[1] + 1>>,
         short_long_ratio |->
             IF m7 = NaN \/ m28 = NaN THEN NaN
             ELSE <<m7[1] * m28[2], m7[2] * (m28[1] + m28[2])>>]

\* the lag, rolling and trend columns of row i of frame df
QuantityFeatures(df, i) ==
    LET x == GroupSeries(df, i)
    IN  [lag |-> add_lag_features(x), rolling |-> add_rolling_features(x),
         trend |-> add_trend_features(x)]

\* a frame whose rows are never dropped
NeverNaN(f) == FALSE
\* a row with a NaN in any column, which dropna() removes
HasNaN(f) ==
    \/ \E c \in DOMAIN f.lag : f.lag[c] = NaN
    \/ \E c \in DOMAIN f.rolling : f.rolling[c] = NaN
    \/ \E c \in DOMAIN f.trend : f.trend[c] = NaN

\* engineer_features: every row gets its feature columns, then dropna()
engineer_features(df) ==
    LET full == [i \in 1..Len(df) |->
                    [date |-> df[i].date, product_id |-> df[i].product_id,
                     location_id |-> df[i].location_id,
                     quantity |-> df[i].quantity,
                     features |-> QuantityFeatures(df, i)]]
        Complete(r) == ~HasNaN(r.features)
    IN  SelectSeq(full, Complete)

\* df.sort_values("date"): rows in date order (rows of one date keep their
\* frame order here; the partitions below do not depend on it)
RECURSIVE InsertByDate(_, _)
InsertByDate(sorted, r) ==
    IF sorted = <<>> THEN <<r>>
    ELSE IF sorted[Len(sorted)].date <= r.date THEN Append(sorted, r)
    ELSE Append(InsertByDate(SubSeq(sorted, 1, Len(sorted) - 1), r),
                sorted[Len(sorted)])

RECURSIVE SortByDate(_)
SortByDate(df) ==
    IF df = <<>> THEN <<>>
    ELSE InsertByDate(SortByDate(SubSeq(df, 1, Len(df) - 1)), df[Len(df)])

\* df["date"].max(); only used on a frame with rows
LastDate(df) == CHOOSE d \in {df[i].date : i \in 1..Len(df)} :
                   \A j \in 1..Len(df) : d >= df[j].date

\* a training mask that loses the rows dated at the cutoff
InTrainStrict(r, cutoff_date) == r.date < cutoff_date
\* df["date"] <= cutoff_date
InTrain(r, cutoff_date) == r.date <= cutoff_date
\* df["date"] > cutoff_date
InTest(r, cutoff_date) == r.date > cutoff_date

\* prepare_train_test_split: X_train / y_train are columns of train_df and
\* X_test / y_test columns of test_df.  On a frame without rows max() is NaT,
\* both comparisons are False everywhere and both partitions are empty.
prepare_train_test_split(df, test_days) ==
    IF df = <<>> THEN [train_df |-> <<>>, test_df |-> <<>>]
    ELSE
        LET sorted == SortByDate(df)
            cutoff_date == LastDate(sorted) - test_days
            Train(r) == InTrain(r, cutoff_date)
            Test(r) == InTest(r, cutoff_date)
        IN  [train_df |-> SelectSeq(sorted, Train),
             test_df |-> SelectSeq(sorted, Test)]

\* TimeSeriesSplit(n_splits).split(X) over n_samples rows: test_size =
\* n_samples // (n_splits + 1), one fold per test start in
\* range(n_samples - n_splits * test_size, n_samples, test_size); a fold
\* trains on the row positions before its test start and validates on the
\* next test_size positions (positions count from 1 here)
TimeSeriesSplit(n_samples, n_splits) ==
    LET test_size == n_samples \div (n_splits + 1)
    IN  [f \in 1..n_splits |->
            LET test_start == n_samples - (n_splits - f + 1) * test_size
            IN  [train_idx |-> 1..test_start,
                 val_idx |-> (test_start + 1)..(test_start + test_size)]]

\* split() raises ValueError when n_splits + 1 exceeds the number of rows
TooManyFolds(n_samples, n_splits) == n_splits + 1 > n_samples

\* ------------------------------------------------------------ train.py
\* settings.MIN_TRAINING_SAMPLES, and the defaults of --test-days, --cv-folds
MIN_TRAINING_SAMPLES == 30
TEST_SIZE_DAYS == 14
CV_FOLDS == 5

\* fact_sales as load_training_data aggregates it: SUM(quantity) of a date
\* and (product, location); the series of a location grows by 5 a day from 100
SalesQuantity(d, l) == 100 + 5 * (d - 1) + 3 * (l - 1)

\* load_training_data: one row per (date, product_id, location_id) that has
\* sales, ORDER BY full_date, product_id, location_id.  The data holds days
\* 1..days of product 1 at locations 1..groups; with gap > 0 location 1 has no
\* sales on day `days - gap`.
load_training_data(days, groups, gap) ==
    LET all == [k \in 1..(days * groups) |->
                   [date |-> (k - 1) \div groups + 1, product_id |-> 1,
                    location_id |-> ((k - 1) % groups) + 1,
                    quantity |-> SalesQuantity((k - 1) \div groups + 1,
                                               ((k - 1) % groups) + 1)]]
        HasSales(r) == ~(gap > 0 /\ r.location_id = 1 /\ r.date = days - gap)
    IN  SelectSeq(all, HasSales)

\* generate_version: datetime.now(timezone.utc).strftime("%Y%m%d_%H%M%S"),
\* the clock cut to whole seconds
generate_version(now) == now \div 2

\* the hyperparameters train() records (learning_rate, subsample and
\* colsample_bytree in tenths)
Hyperparams ==
    [max_depth |-> 6, learning_rate |-> <<1, 10>>, n_estimators |-> 100,
     min_child_weight |-> 1, subsample |-> <<8, 10>>,
     colsample_bytree |-> <<8, 10>>]

\* get_feature_columns()
get_feature_columns ==
    <<"day_of_week", "day_of_month", "day_of_year", "week_of_year", "month",
      "quarter", "year", "dow_sin", "dow_cos", "month_sin", "month_cos",
      "is_weekend", "is_month_start", "is_month_end", "is_holiday",
      "days_to_holiday", "days_since_holiday", "qty_lag_1d", "qty_lag_7d",
      "qty_lag_14d", "qty_lag_28d", "qty_same_dow_1w", "qty_same_dow_2w",
      "qty_same_dow_4w", "qty_rolling_mean_7d", "qty_rolling_std_7d",
      "qty_rolling_min_7d", "qty_rolling_max_7d", "qty_rolling_mean_14d",
      "qty_rolling_std_14d", "qty_rolling_min_14d", "qty_rolling_max_14d",
      "qty_rolling_mean_28d", "qty_rolling_std_28d", "qty_rolling_min_28d",
      "qty_rolling_max_28d", "qty_wow_change", "qty_wow_pct_change",
      "short_long_ratio">>

\* json.dumps(value) as the text of a JSON column, and the value a reader
\* parses out of that text
json_dumps(value) == <<"json", value>>
json_loads(text) == text[2]

\* a `train` process: where it stands and its local variables
IdleRun ==
    [pc |-> "idle", error |-> "none", model_name |-> "null", raw_df |-> <<>>,
     df |-> <<>>, test_days |-> 0, train_df |-> <<>>, test_df |-> <<>>,
     cv_folds |-> 0, folds |-> <<>>, fits |-> 0, all_metrics |-> <<>>,
     version |-> -1, model_id |-> 0]

\* an error that is logged and swallowed, after which the run goes on to
\* register what it has
FailedThenRegisters(run, error) == [run EXCEPT !.pc = "saved", !.error = error]
\* an exception leaves train(): the process ends
Failed(run, error) == [run EXCEPT !.pc = "failed", !.error = error]

\* raw_df = load_training_data(..); fewer rows than MIN_TRAINING_SAMPLES
\* raises ClickException
TrainLoad(t, days, groups, gap) ==
    /\ runs[t].pc = "idle"
    /\ LET raw_df == load_training_data(days, groups, gap)
           run == [runs[t] EXCEPT !.model_name = "demand_forecast",
                                  !.raw_df = raw_df]
       IN  runs' = [runs EXCEPT ![t] =
                IF Len(raw_df) < MIN_TRAINING_SAMPLES
                THEN Failed(run, "ClickException")
                ELSE [run EXCEPT !.pc = "loaded"]]
    /\ UNCHANGED <<clock, ml_model, s3>>
    /\ UNCHANGED <<registry, audit, sess, last, serving, curated>>

\* df = engineer_features(raw_df)
TrainEngineer(t) ==
    /\ runs[t].pc = "loaded"
    /\ runs' = [runs EXCEPT ![t].pc = "engineered",
                            ![t].df = engineer_features(runs[t].raw_df)]
    /\ UNCHANGED <<clock, ml_model, s3>>
    /\ UNCHANGED <<registry, audit, sess, last, serving, curated>>

\* X_train, X_test, y_train, y_test = prepare_train_test_split(df, test_days)
TrainSplit(t, test_days) ==
    /\ runs[t].pc = "engineered"
    /\ LET parts == prepare_train_test_split(runs[t].df, test_days)
       IN  runs' = [runs EXCEPT ![t].pc = "split",
                                ![t].test_days = test_days,
                                ![t].train_df = parts.train_df,
                                ![t].test_df = parts.test_df]
    /\ UNCHANGED <<clock, ml_model, s3>>
    /\ UNCHANGED <<registry, audit, sess, last, serving, curated>>

\* cross_validate_model(df[feature_cols], df["quantity"], n_splits=cv_folds):
\* one XGBRegressor fit per fold, over the rows of df in frame order
TrainCrossValidate(t, cv_folds) ==
    /\ runs[t].pc = "split"
    /\ LET n_samples == Len(runs[t].df)
           run == [runs[t] EXCEPT !.cv_folds = cv_folds]
       IN  runs' = [runs EXCEPT ![t] =
                IF TooManyFolds(n_samples, cv_folds)
                THEN Failed(run, "ValueError")
                ELSE [run EXCEPT !.pc = "validated",
                                 !.folds = TimeSeriesSplit(n_samples, cv_folds),
                                 !.fits = @ + cv_folds]]
    /\ UNCHANGED <<clock, ml_model, s3>>
    /\ UNCHANGED <<registry, audit, sess, last, serving, curated>>

\* train_xgboost_model(X_train, y_train, X_test, y_test): model.fit, then the
\* sklearn metrics, which raise ValueError on a partition without rows; the
\* metric values are whatever the fit gives
TrainFit(t, metric) ==
    /\ runs[t].pc = "validated"
    /\ LET run == [runs[t] EXCEPT !.fits = @ + 1]
       IN  runs' = [runs EXCEPT ![t] =
                IF run.train_df = <<>> \/ run.test_df = <<>>
                THEN Failed(run, "ValueError")
                ELSE [run EXCEPT !.pc = "fitted",
                                 !.all_metrics = [test_mae |-> metric,
                                                  cv_mae_mean |-> metric]]]
    /\ UNCHANGED <<clock, ml_model, s3>>
    /\ UNCHANGED <<registry, audit, sess, last, serving, curated>>

\* version = generate_version()
TrainVersion(t) ==
    /\ runs[t].pc = "fitted"
    /\ runs' = [runs EXCEPT ![t].pc = "versioned",
                            ![t].version = generate_version(clock)]
    /\ UNCHANGED <<clock, ml_model, s3>>
    /\ UNCHANGED <<registry, audit, sess, last, serving, curated>>

\* the object path models/{model_name}/{version}/...
ModelPath(model_name, version) == <<"models", model_name, version>>

\* save_model_to_s3: put_object of model.pkl and metrics.json under the
\* version's path; put_object replaces an object that is there
TrainSave(t) ==
    /\ runs[t].pc = "versioned"
    /\ s3' = [p \in DOMAIN s3 \cup {ModelPath(runs[t].model_name, runs[t].version)} |->
                 IF p = ModelPath(runs[t].model_name, runs[t].version)
                 THEN [model_pkl |-> t, metrics_json |-> json_dumps(runs[t].all_metrics)]
                 ELSE s3[p]]
    /\ runs' = [runs EXCEPT ![t].pc = "saved"]
    /\ UNCHANGED <<clock, ml_model>>
    /\ UNCHANGED <<registry, audit, sess, last, serving, curated>>

\* a table without the unique key
UniqueKeyOff(rows, model_name, version) == FALSE
\* UniqueConstraint('model_name', 'version', name='uq_model_version'): the
\* INSERT of a pair the table already holds raises IntegrityError
uq_model_version(rows, model_name, version) ==
    \E i \in 1..Len(rows) :
        rows[i].model_name = model_name /\ rows[i].version = version

\* register_model: INSERT INTO ml_model (...) VALUES (..., 'staged', ...),
\* model_id = result.lastrowid, commit
TrainRegister(t) ==
    /\ runs[t].pc = "saved"
    /\ IF uq_model_version(ml_model, runs[t].model_name, runs[t].version)
       THEN /\ runs' = [runs EXCEPT ![t] = Failed(runs[t], "IntegrityError")]
            /\ UNCHANGED ml_model
       ELSE /\ ml_model' = Append(ml_model,
                [id |-> Len(ml_model) + 1,
                 model_name |-> runs[t].model_name,
                 version |-> runs[t].version,
                 algorithm |-> "xgboost",
                 status |-> "staged",
                 metrics_json |-> json_dumps(runs[t].all_metrics),
                 hyperparams_json |-> json_dumps(Hyperparams),
                 feature_names_json |-> json_dumps(get_feature_columns),
                 artifact_s3_uri |-> ModelPath(runs[t].model_name, runs[t].version),
                 trained_by |-> "ml-training-job"])
            /\ runs' = [runs EXCEPT ![t].pc = "done",
                                    ![t].model_id = Len(ml_model) + 1]
    /\ UNCHANGED <<clock, s3>>
    /\ UNCHANGED <<registry, audit, sess, last, serving, curated>>

\* the process is killed, or its caller gives up on it, at any step
TrainAbandon(t) ==
    /\ runs[t].pc \notin {"idle", "done", "failed", "abandoned"}
    /\ runs' = [runs EXCEPT ![t].pc = "abandoned"]
    /\ UNCHANGED <<clock, ml_model, s3>>
    /\ UNCHANGED <<registry, audit, sess, last, serving, curated>>

\* time passes
Tick ==
    /\ clock < MaxClock
    /\ clock' = clock + 1
    /\ UNCHANGED <<runs, ml_model, s3>>
    /\ UNCHANGED <<registry, audit, sess, last, serving, curated>>

\* list_models: select(MLModel).order_by(created_at.desc()).limit(50), each
\* row as a ModelInfo (model_name, version, status, metrics; the dates are
\* left out here)
ModelInfo(m) ==
    [model_name |-> m.model_name, version |-> m.version, status |-> m.status,
     metrics |-> json_loads(m.metrics_json)]
list_models(rows) == {ModelInfo(rows[i]) : i \in 1..Len(rows)}

\* --------------------------------------- features.py: add_holiday_features
\* sorted(holidays.country_holidays(country, years).keys()): the holidays of
\* the years of the frame, as day numbers on the frame's date axis.  One
\* holiday early, one late, and two that lie more than 30 days apart.
Calendars == {{10}, {35}, {1, 40}}

\* a frame of n rows on consecutive dates
DateFrame(from, n) == [i \in 1..n |-> [date |-> from + i - 1]]

SetMin(S) == CHOOSE x \in S : \A y \in S : x <= y
SetMax(S) == CHOOSE x \in S : \A y \in S : x >= y

\* future = [h for h in holiday_dates if h > date];
\* (future[0] - date).days if future else 999
days_to_holiday(date, holiday_dates) ==
    LET future == {h \in holiday_dates : h > date}
    IN  IF future # {} THEN SetMin(future) - date ELSE 999

\* past = [h for h in holiday_dates if h < date];
\* (date - past[-1]).days if past else 999
days_since_holiday(date, holiday_dates) ==
    LET past == {h \in holiday_dates : h < date}
    IN  IF past # {} THEN date - SetMax(past) ELSE 999

\* a column that is left as computed
NoClip(x, upper) == x
\* Series.clip(upper=upper)
ClipUpper(x, upper) == IF x > upper THEN upper ELSE x

\* add_holiday_features: is_holiday and the two distances, capped at 30
add_holiday_features(df, holiday_dates) ==
    [i \in 1..Len(df) |->
        [date |-> df[i].date,
         is_holiday |-> IF df[i].date \in holiday_dates THEN 1 ELSE 0,
         days_to_holiday |->
             ClipUpper(days_to_holiday(df[i].date, holiday_dates), 30),
         days_since_holiday |->
             ClipUpper(days_since_holiday(df[i].date, holiday_dates), 30)]]

\* df = add_holiday_features(df, country): engineer_features calls it once,
\* on a frame that has no holiday columns yet
AddHolidayFeatures(from, n, holiday_dates) ==
    /\ holiday_df = <<>>
    /\ holiday_df' = add_holiday_features(DateFrame(from, n), holiday_dates)
    /\ UNCHANGED <<raw_sales, fact_sales, ingest>>
    /\ UNCHANGED <<registry, audit, sess, last, serving, training>>

\* ------------------------------------------- raw_to_curated.py: ingest_sales
\* The raw sales events of the date range.  Event e carries order_id e; the
\* last event names a product that dim_product does not hold.
RawEvents == 1..MaxEvents
RawDoc(e) ==
    [_id |-> e, order_id |-> e, product_id |-> IF e = MaxEvents THEN 0 ELSE 1,
     location_id |-> 1, event_date |-> 1, quantity |-> 1]

\* _get_date_key, _get_product_sk, _get_location_sk: None for a key the
\* dimension table does not hold
DimensionKeys(doc) ==
    [date_key |-> doc.event_date,
     product_sk |-> IF doc.product_id \in Products THEN doc.product_id ELSE 0,
     location_sk |-> IF doc.location_id \in Locations THEN doc.location_id ELSE 0]
\* all([date_key, product_sk, location_sk])
AllDimensions(keys) ==
    keys.date_key # 0 /\ keys.product_sk # 0 /\ keys.location_sk # 0

IdleIngest ==
    [pc |-> "idle", batch_size |-> 0, cursor |-> <<>>, doc |-> 0, txn |-> <<>>,
     processed |-> 0, skipped |-> 0, errors |-> 0]

\* collection.find({"event_date": .., "processed": {"$ne": True}})
FindUnprocessed ==
    LET Unprocessed(e) == ~raw_sales[e].processed
    IN  SelectSeq([e \in RawEvents |-> e], Unprocessed)

\* SELECT 1 FROM fact_sales WHERE order_id = :order_id LIMIT 1, as the
\* connection sees it: the committed rows and those of its open transaction
ExistingOrder(order_id) ==
    \E i \in 1..Len(fact_sales \o ingest.txn) :
        (fact_sales \o ingest.txn)[i].order_id = order_id

\* the task starts: the cursor over the unprocessed events of the range
IngestStart(batch_size) ==
    /\ ingest.pc \in {"idle", "done"}
    /\ ingest' = [IdleIngest EXCEPT !.pc = "next", !.batch_size = batch_size,
                                    !.cursor = FindUnprocessed]
    /\ UNCHANGED <<raw_sales, fact_sales, holiday_df>>
    /\ UNCHANGED <<registry, audit, sess, last, serving, training>>

\* one document of the cursor, up to its INSERT: an order_id that fact_sales
\* holds is skipped, a missing dimension key is counted as an error
IngestInsert ==
    /\ ingest.pc = "next" /\ ingest.cursor # <<>>
    /\ LET doc == RawDoc(Head(ingest.cursor))
           keys == DimensionKeys(doc)
           rest == [ingest EXCEPT !.cursor = Tail(ingest.cursor)]
       IN  ingest' =
               IF ExistingOrder(doc.order_id)
                   THEN [rest EXCEPT !.skipped = ingest.skipped + 1]
               ELSE IF ~AllDimensions(keys)
                   THEN [rest EXCEPT !.errors = ingest.errors + 1]
               ELSE [rest EXCEPT !.pc = "inserted", !.doc = doc._id,
                         !.txn = Append(ingest.txn,
                             [order_id |-> doc.order_id,
                              date_key |-> keys.date_key,
                              product_sk |-> keys.product_sk,
                              location_sk |-> keys.location_sk,
                              quantity |-> doc.quantity])]
    /\ UNCHANGED <<raw_sales, fact_sales, holiday_df>>
    /\ UNCHANGED <<registry, audit, sess, last, serving, training>>

\* collection.update_one({"_id": ..}, {"$set": {"processed": True}}) and
\* processed += 1; an exception of update_one is logged and counted, and the
\* loop goes on with the row still in the transaction
IngestMark(ok) ==
    /\ ingest.pc = "inserted"
    /\ IF ok
       THEN /\ raw_sales' = [raw_sales EXCEPT ![ingest.doc].processed = TRUE]
            /\ ingest' = [ingest EXCEPT
                   !.processed = ingest.processed + 1,
                   !.pc = IF (ingest.processed + 1) % ingest.batch_size = 0
                          THEN "commit" ELSE "next"]
       ELSE /\ ingest' = [ingest EXCEPT !.errors = ingest.errors + 1,
                                        !.pc = "next"]
            /\ UNCHANGED raw_sales
    /\ UNCHANGED <<fact_sales, holiday_df>>
    /\ UNCHANGED <<registry, audit, sess, last, serving, training>>

\* if processed % batch_size == 0: conn.commit()
IngestBatchCommit ==
    /\ ingest.pc = "commit"
    /\ fact_sales' = fact_sales \o ingest.txn
    /\ ingest' = [ingest EXCEPT !.txn = <<>>, !.pc = "next"]
    /\ UNCHANGED <<raw_sales, holiday_df>>
    /\ UNCHANGED <<registry, audit, sess, last, serving, training>>

\* the cursor is exhausted: conn.commit() and the statistics are returned
IngestFinish ==
    /\ ingest.pc = "next" /\ ingest.cursor = <<>>
    /\ fact_sales' = fact_sales \o ingest.txn
    /\ ingest' = [ingest EXCEPT !.txn = <<>>, !.pc = "done"]
    /\ UNCHANGED <<raw_sales, holiday_df>>
    /\ UNCHANGED <<registry, audit, sess, last, serving, training>>

\* the worker dies, or an exception leaves the `with engine.connect()` block:
\* the connection closes and its open transaction is rolled back
IngestCrash ==
    /\ ingest.pc \in {"next", "inserted", "commit"}
    /\ ingest' = IdleIngest
    /\ UNCHANGED <<raw_sales, fact_sales, holiday_df>>
    /\ UNCHANGED <<registry, audit, sess, last, serving, training>>

\* ------------------------------------------------------------ specifications
Init ==
    /\ registry = [k \in Keys |-> NoRow]
    /\ audit = <<>>
    /\ sess = [s \in Sessions |-> IdleSession]
    /\ last = NoRequest
    /\ assignments = <<>>
    /\ cache = [c \in CacheKeys |-> NoResponse]
    /\ runs = [t \in Runs |-> IdleRun]
    /\ clock = 0
    /\ ml_model = <<>>
    /\ s3 = <<>>
    /\ raw_sales = [e \in RawEvents |-> [processed |-> FALSE]]
    /\ fact_sales = <<>>
    /\ ingest = IdleIngest
    /\ holiday_df = <<>>

\* concurrent promote requests for one model_name (rows of different names
\* share nothing), with the trainer registering versions of it
Next ==
    \/ \E s \in Sessions, v \in Versions, u \in AdminEmails :
           PromoteSelect(s, "demand_forecast", v, u)
    \/ \E s \in Sessions : PromoteArchive(s)
    \/ \E s \in Sessions : PromoteCommit(s)
    \/ \E s \in Sessions : SessionRollback(s)
    \/ \E v \in Versions : Register("demand_forecast", v)

Spec == Init /\ [][Next]_vars

\* requests served one at a time, over every model name: one session, a new
\* request or registration only when none is in flight
NextSeq ==
    \/ \E n \in Names, v \in Versions : PromoteSelect(1, n, v, "alice")
    \/ PromoteArchive(1)
    \/ PromoteCommit(1)
    \/ SessionRollback(1)
    \/ \E n \in Names, v \in Versions :
           sess[1].pc = "idle" /\ Register(n, v)

SpecSeq == Init /\ [][NextSeq]_vars

\* promote requests with every kind of credentials
NextAuth ==
    \/ \E s \in Sessions, v \in Versions, credentials \in Credentials :
           PromoteRequest(s, "demand_forecast", v, credentials)
    \/ \E s \in Sessions : PromoteArchive(s)
    \/ \E s \in Sessions : PromoteCommit(s)
    \/ \E s \in Sessions : SessionRollback(s)
    \/ \E v \in Versions : Register("demand_forecast", v)

SpecAuth == Init /\ [][NextAuth]_vars

\* the serving side: one model name; session 1 carries the admin requests
\* (promote, assign), session 2 the forecast requests
NextServe ==
    \/ \E v \in Versions : Register("demand_forecast", v)
    \/ \E v \in Versions : PromoteSelect(1, "demand_forecast", v, "alice")
    \/ PromoteArchive(1)
    \/ PromoteCommit(1)
    \/ \E s \in Sessions : SessionRollback(s)
    \/ \E p \in Products, l \in Locations, v \in Versions :
           AssignSelect(1, p, l, <<"demand_forecast", v>>)
    \/ AssignCommit(1)
    \/ \E sku \in Skus, region \in RegionNames, sd \in Dates, ed \in Dates,
          ia \in BOOLEAN : ForecastCacheGet(2, sku, region, sd, ed, ia)
    \/ ForecastQuery(2)
    \/ ForecastCacheSet(2)
    \/ \E c \in CacheKeys : CacheExpire(c)

SpecServe == Init /\ [][NextServe]_vars

\* concurrent assign requests
NextAssign ==
    \/ \E n \in Names, v \in Versions : Register(n, v)
    \/ \E s \in Sessions, p \in Products, l \in Locations, m \in Keys :
           AssignSelect(s, p, l, m)
    \/ \E s \in Sessions : AssignCommit(s)
    \/ \E s \in Sessions : SessionRollback(s)

SpecAssign == Init /\ [][NextAssign]_vars

\* one training run over every data set and option
NextPipeline ==
    \/ \E days \in 0..MaxDays, groups \in 1..MaxGroups, gap \in 0..MaxGap :
           gap < days /\ TrainLoad(1, days, groups, gap)
    \/ TrainEngineer(1)
    \/ \E test_days \in 0..MaxTestDays : TrainSplit(1, test_days)
    \/ \E cv_folds \in 2..MaxFolds : TrainCrossValidate(1, cv_folds)
    \/ \E metric \in 0..MaxMetric : TrainFit(1, metric)
    \/ TrainVersion(1)
    \/ TrainSave(1)
    \/ TrainRegister(1)

SpecPipeline == Init /\ [][NextPipeline]_vars

\* training runs started at any time relative to each other, with the
\* default options, over the longest data set or one that is too short
NextTrain ==
    \/ \E t \in Runs, days \in {MIN_TRAINING_SAMPLES - 1, MaxDays} :
           TrainLoad(t, days, 1, 0)
    \/ \E t \in Runs : TrainEngineer(t)
    \/ \E t \in Runs : TrainSplit(t, TEST_SIZE_DAYS)
    \/ \E t \in Runs : TrainCrossValidate(t, CV_FOLDS)
    \/ \E t \in Runs, metric \in 0..MaxMetric : TrainFit(t, metric)
    \/ \E t \in Runs : TrainVersion(t)
    \/ \E t \in Runs : TrainSave(t)
    \/ \E t \in Runs : TrainRegister(t)
    \/ \E t \in Runs : TrainAbandon(t)
    \/ Tick

SpecTrain == Init /\ [][NextTrain]_vars

\* ingest_sales runs, crashes and re-runs over one date range
NextIngest ==
    \/ \E batch_size \in 1..MaxBatch : IngestStart(batch_size)
    \/ IngestInsert
    \/ \E ok \in BOOLEAN : IngestMark(ok)
    \/ IngestBatchCommit
    \/ IngestFinish
    \/ IngestCrash

SpecIngest == Init /\ [][NextIngest]_vars

\* add_holiday_features applied to frames of up to MaxRows consecutive dates
NextHoliday ==
    \E from \in 1..MaxDays, n \in 1..MaxRows, holiday_dates \in Calendars :
        AddHolidayFeatures(from, n, holiday_dates)

SpecHoliday == Init /\ [][NextHoliday]_vars

\* ------------------------------------------------------------------ claims
ProdVersions(n) == {v \in Versions : registry[<<n, v>>].status = "prod"}
ArchivedVersions(n) == {v \in Versions : registry[<<n, v>>].status = "archived"}
Target(s) == <<sess[s].name, sess[s].version>>

\* the step in which session s commits a promotion
PromoteCommitted(s) ==
    /\ sess[s].op = "promote" /\ sess[s].pc = "returned"
    /\ sess'[s].pc = "idle"
    /\ last'.code = 200

\* C1: with requests served one at a time, every model_name has at most one
\* row with status prod, after any sequence of register and promote
C1_AtMostOneProd == \A n \in Names : Cardinality(ProdVersions(n)) <= 1

\* a promotion has displaced an earlier prod row of the same name
C1_Witness ==
    \E n \in Names : ProdVersions(n) # {} /\ ArchivedVersions(n) # {}

\* C2: when promote requests of one model_name interleave, no state has two
\* rows of that name with status prod
C2_NeverTwoProd ==
    \A n \in Names : \A v, w \in Versions :
        (registry[<<n, v>>].status = "prod" /\ registry[<<n, w>>].status = "prod")
            => v = w

\* C3: a successful promote, served alone, leaves the target prod with
\* promoted_at / promoted_by stamped, archives the rows of the name that were
\* prod, changes no other row, and answers previous_status = the target's
\* status before the call and new_status = prod
C3_PromoteEffect ==
    [][\A s \in Sessions : PromoteCommitted(s) =>
        LET target == Target(s) IN
        /\ registry'[target].status = "prod"
        /\ registry'[target].promoted_at = sess[s].promoted_at
        /\ registry'[target].promoted_at \in Times
        /\ registry'[target].promoted_by = sess[s].user
        /\ registry'[target].promoted_by \in AdminEmails
        /\ \A k \in Keys \ {target} :
              IF k[1] = target[1] /\ registry[k].status = "prod"
                  THEN registry'[k] = [registry[k] EXCEPT !.status = "archived"]
                  ELSE registry'[k] = registry[k]
        /\ last'.previous_status = registry[target].status
        /\ last'.new_status = "prod"]_vars

\* a promotion of a staged row has answered while a row of another name is
\* prod and a row of the same name was archived by it
C3_Witness ==
    /\ last.op = "promote" /\ last.code = 200 /\ last.previous_status = "staged"
    /\ \E n, m \in Names :
          n # m /\ ProdVersions(n) # {} /\ ArchivedVersions(n) # {}
              /\ ProdVersions(m) # {}

\* C4: promote on a target that is already prod answers 400 and changes no
\* registry row and no audit row (the session goes on to nothing); and the
\* target of a successful promote is prod afterwards, so the same promote,
\* repeated, takes that branch
C4_AlreadyPromotedRejected ==
    [][/\ \A s \in Sessions, n \in Names, v \in Versions, u \in AdminEmails :
            (PromoteSelect(s, n, v, u) /\ registry[<<n, v>>].status = "prod") =>
                /\ last' = Finished("promote", 400, "null", "null")
                /\ registry' = registry
                /\ audit' = audit
                /\ sess' = sess
       /\ \A s \in Sessions : PromoteCommitted(s) =>
            AlreadyProd(registry'[Target(s)])]_vars

\* a promote was rejected as already promoted after promotions were audited
C4_Witness ==
    /\ last = Finished("promote", 400, "null", "null")
    /\ audit # <<>>
    /\ \E k \in Keys : registry[k].status = "prod" /\ registry[k].promoted_at # 0

\* C5: promote on a (model_name, version) that is not in the registry answers
\* 404 and changes no registry row and no audit row
C5_NotFoundRejected ==
    [][\A s \in Sessions, n \in Names, v \in Versions, u \in AdminEmails :
          (PromoteSelect(s, n, v, u) /\ registry[<<n, v>>].status = "absent") =>
              /\ last' = Finished("promote", 404, "null", "null")
              /\ registry' = registry
              /\ audit' = audit
              /\ sess' = sess]_vars

\* a promote of an unknown pair was rejected while the registry holds rows
C5_Witness ==
    /\ last = Finished("promote", 404, "null", "null")
    /\ \E k \in Keys : registry[k].status = "absent"
    /\ \E k \in Keys : registry[k].status = "prod"

\* C6: archived is terminal, and every status change of a row is one of
\* staged -> prod, prod -> archived, staged -> archived
C6_ArchivedIsTerminal ==
    [][\A k \in Keys :
          registry'[k].status # registry[k].status =>
              <<registry[k].status, registry'[k].status>> \in
                  {<<"absent", "staged">>, <<"staged", "prod">>,
                   <<"prod", "archived">>, <<"staged", "archived">>}]_vars

\* C7: a row appears only as register's staged row, and a row becomes prod
\* only in the commit of a promote request that names it
C7_ProdOnlyByPromote ==
    [][\A k \in Keys :
          /\ (registry[k].status = "absent" /\ registry'[k].status # "absent") =>
                /\ registry'[k].status = "staged"
                /\ last'.op = "register" /\ last'.code = 200
          /\ (registry[k].status # "prod" /\ registry'[k].status = "prod") =>
                \E s \in Sessions : PromoteCommitted(s) /\ Target(s) = k]_vars

\* a registered row was promoted while another is still staged
C7_Witness ==
    /\ last.op = "promote" /\ last.code = 200
    /\ \E k \in Keys : registry[k].status = "prod"
    /\ \E k \in Keys : registry[k].status = "staged"

\* the forecast request of session s leaves its database reads, not by a
\* database error
ForecastAnswered(s) ==
    /\ sess[s].op = "forecast" /\ sess[s].pc = "lookup"
    /\ sess'[s].pc # "lookup"
    /\ ~(last' # last /\ last'.code = 500)

LocationsOf(region) == {l \in Locations : RegionOf(l) = region}

\* C8: when every pair the request can resolve to has a Model Assignment,
\* get_forecast serves an assigned model's forecast rows, whatever the
\* status of that model
C8_AssignmentHonored ==
    [][\A s \in Sessions :
          (/\ ForecastAnswered(s)
           /\ sess[s].sku \in Products /\ sess[s].region \in Regions
           /\ \A l \in LocationsOf(sess[s].region) :
                 PairRows(sess[s].sku, l) # {}) =>
              /\ sess'[s].pc = "respond"
              /\ \E l \in LocationsOf(sess[s].region) :
                 \E i \in PairRows(sess[s].sku, l) :
                    sess'[s].response =
                        [model_version |-> assignments[i].model_id[2],
                         model_name |-> assignments[i].model_id[1],
                         forecasts |-> ForecastPoints(sess[s].sku, l,
                             assignments[i].model_id[2], sess[s].start_date,
                             sess[s].end_date, sess[s].include_actuals)]]_vars

\* C9: get_forecast for an existing product and region none of whose pairs
\* has a Model Assignment answers 200 with an empty forecast list, from the
\* database path, and the cache never holds an entry for such a request
C9_UnassignedIsEmpty ==
    [][/\ \A s \in Sessions :
            (/\ ForecastQuery(s)
             /\ sess[s].sku \in Products /\ sess[s].region \in Regions
             /\ \A l \in LocationsOf(sess[s].region) :
                   PairRows(sess[s].sku, l) = {}) =>
                /\ last' = Served(200, EmptyForecast)
                /\ last'.body.forecasts = <<>>
                /\ sess'[s].pc = "idle"
       /\ \A c \in CacheKeys :
            (/\ c[1] \in Products /\ c[2] \in Regions
             /\ \A l \in LocationsOf(c[2]) : PairRows(c[1], l) = {}) =>
                cache[c] = NoResponse]_vars

\* an unassigned pair was served the empty forecast while a prod model exists
C9_Witness ==
    /\ last = Served(200, EmptyForecast)
    /\ assignments = <<>>
    /\ \E k \in Keys : registry[k].status = "prod"

PairsUnique(rows) ==
    \A i, j \in 1..Len(rows) :
        (rows[i].model_name = rows[j].model_name
         /\ rows[i].version = rows[j].version) => i = j

\* C11: no two registry rows ever have the same (model_name, version); a
\* register_model call that would duplicate a pair adds no row, and no call
\* changes a row that is already there.
C11_PairIsKey ==
    [][/\ PairsUnique(ml_model) /\ PairsUnique(ml_model')
       /\ Len(ml_model') >= Len(ml_model)
       /\ SubSeq(ml_model', 1, Len(ml_model)) = ml_model
       /\ \A t \in Runs :
             (/\ runs[t].pc = "saved"
              /\ runs'[t].pc \in {"done", "failed"}
              /\ uq_model_version(ml_model, runs[t].model_name, runs[t].version))
             => ml_model' = ml_model /\ runs'[t].error = "IntegrityError"]_vars

\* a register_model call was rejected for a pair the table holds
C11_Witness ==
    \E t \in Runs :
        /\ runs[t].error = "IntegrityError"
        /\ \E i \in 1..Len(ml_model) :
              /\ ml_model[i].model_name = runs[t].model_name
              /\ ml_model[i].version = runs[t].version

\* C12: any two training runs generate different version identifiers,
\* whenever they run relative to each other.
C12_VersionsDiffer ==
    \A t1, t2 \in Runs :
        (t1 # t2 /\ runs[t1].version # -1 /\ runs[t2].version # -1)
            => runs[t1].version # runs[t2].version

\* C13: after register_model, the row fetched by (model_name, version)
\* through the read model gives back the metrics, hyperparameters and
\* feature_names that were passed in.
C13_RoundTrip ==
    \A t \in Runs :
        runs[t].pc = "done" =>
            \E info \in list_models(ml_model) :
                /\ info.model_name = runs[t].model_name
                /\ info.version = runs[t].version
                /\ info.metrics = runs[t].all_metrics
                /\ "hyperparameters" \in DOMAIN info
                /\ info.hyperparameters = Hyperparams
                /\ "feature_names" \in DOMAIN info
                /\ info.feature_names = get_feature_columns

\* the position in frame df of the observation of r's group dated r.date
RowIndex(df, r) ==
    CHOOSE i \in 1..Len(df) : df[i].date = r.date /\ SameGroup(df[i], r)

\* frame df with other quantities for the observations of r's group: the
\* one dated `from` (single), or every one dated `from` or later
ChangedFrom(df, r, from, single) ==
    [i \in 1..Len(df) |->
        IF /\ SameGroup(df[i], r)
           /\ IF single THEN df[i].date = from ELSE df[i].date >= from
        THEN [df[i] EXCEPT !.quantity = 2 * @ + 1 + df[i].date]
        ELSE df[i]]

\* the changes of r's own and later observations tried on frame df
LaterChanges(df, r) ==
    {ChangedFrom(df, r, from, single) :
        from \in {r.date, r.date + 1}, single \in BOOLEAN}

\* the run has just engineered its features
Engineered(t) == runs[t].pc = "engineered"

\* C14: the lag, rolling and trend features of an output row dated d are a
\* function of its group's observations dated before d only: with other
\* quantities at d or at later dates the row's features come out the same.
C14_NoLeakage ==
    \A t \in Runs :
        Engineered(t) =>
            \A k \in 1..Len(runs[t].df) :
                \A alt \in LaterChanges(runs[t].raw_df, runs[t].df[k]) :
                    QuantityFeatures(alt, RowIndex(alt, runs[t].df[k]))
                        = runs[t].df[k].features

\* features were engineered for a row that has later observations in its
\* group, from a series with a missing day
C14_Witness ==
    \E t \in Runs :
        /\ Engineered(t)
        /\ \E k \in 1..Len(runs[t].df), i \in 1..Len(runs[t].raw_df) :
              /\ SameGroup(runs[t].raw_df[i], runs[t].df[k])
              /\ runs[t].raw_df[i].date > runs[t].df[k].date + 1
              /\ LaterChanges(runs[t].raw_df, runs[t].df[k]) # {runs[t].raw_df}
        /\ \E i \in 2..Len(runs[t].raw_df) :
              runs[t].raw_df[i].date > runs[t].raw_df[i - 1].date + 1

\* frame df without the observations of the groups other than r's
OwnGroupOnly(df, r) ==
    LET Own(x) == SameGroup(x, r)
    IN  SelectSeq(df, Own)

\* frame df with other quantities for the groups other than r's
OthersChanged(df, r) ==
    [i \in 1..Len(df) |->
        IF SameGroup(df[i], r) THEN df[i]
        ELSE [df[i] EXCEPT !.quantity = 3 * @ + 2]]

\* frame df with an observation of one more group after each of its rows
OthersAdded(df) ==
    [j \in 1..(2 * Len(df)) |->
        IF j % 2 = 1 THEN df[(j + 1) \div 2]
        ELSE [df[j \div 2] EXCEPT !.product_id = 0, !.quantity = 7 + j]]

\* frame df with r's group first and the other groups after it
GroupFirst(df, r) ==
    LET Own(x) == SameGroup(x, r)
        Other(x) == ~SameGroup(x, r)
    IN  SelectSeq(df, Own) \o SelectSeq(df, Other)

\* the changes of the other groups' observations tried on frame df
OtherGroupChanges(df, r) ==
    {OwnGroupOnly(df, r), OthersChanged(df, r), OthersAdded(df),
     GroupFirst(df, r)}

\* C15: the lag, rolling and trend features of a row depend on the
\* observations of its own (product_id, location_id) group only: with other
\* groups' observations removed, changed, added or interleaved differently
\* the row's features come out the same.
C15_GroupsIndependent ==
    \A t \in Runs :
        Engineered(t) =>
            \A k \in 1..Len(runs[t].df) :
                \A alt \in OtherGroupChanges(runs[t].raw_df, runs[t].df[k]) :
                    QuantityFeatures(alt, RowIndex(alt, runs[t].df[k]))
                        = runs[t].df[k].features

\* features were engineered for rows of two groups that alternate in the
\* frame
C15_Witness ==
    \E t \in Runs :
        /\ Engineered(t)
        /\ \E k1, k2 \in 1..Len(runs[t].df) :
              /\ ~SameGroup(runs[t].df[k1], runs[t].df[k2])
              /\ runs[t].df[k1].date = runs[t].df[k2].date
              /\ OthersChanged(runs[t].raw_df, runs[t].df[k1]) # runs[t].raw_df

\* how many rows of frame df are the observation r
Occurrences(df, r) == Cardinality({i \in 1..Len(df) : df[i] = r})

\* the run has just split its frame
Split(t) == runs[t].pc = "split"

\* C16: with cutoff = max(date) - test_days the split puts every row dated
\* <= cutoff in the training set and every row dated > cutoff in the test
\* set; the sets are disjoint, hold every row exactly once together, and
\* every training date is before every test date.
C16_SplitPartitions ==
    \A t \in Runs :
        (Split(t) /\ runs[t].df # <<>>) =>
            LET df == runs[t].df
                train == runs[t].train_df
                test == runs[t].test_df
                cutoff == LastDate(df) - runs[t].test_days
            IN  /\ \A i \in 1..Len(df) :
                      /\ Occurrences(train, df[i]) + Occurrences(test, df[i]) = 1
                      /\ df[i].date <= cutoff <=> Occurrences(train, df[i]) = 1
                      /\ df[i].date > cutoff <=> Occurrences(test, df[i]) = 1
                /\ Len(train) + Len(test) = Len(df)
                /\ \A i \in 1..Len(train), j \in 1..Len(test) :
                      train[i].date < test[j].date

\* a frame of two groups was split into two partitions with rows, one of them
\* dated at the cutoff
C16_Witness ==
    \E t \in Runs :
        /\ Split(t)
        /\ runs[t].train_df # <<>> /\ runs[t].test_df # <<>>
        /\ \E i, j \in 1..Len(runs[t].train_df) :
              /\ ~SameGroup(runs[t].train_df[i], runs[t].train_df[j])
              /\ runs[t].train_df[i].date
                     = LastDate(runs[t].df) - runs[t].test_days

\* C17: the holdout split fails with InsufficientDataError, and returns no
\* partitions, whenever the training or the test partition is empty.
C17_EmptyPartitionFails ==
    \A t \in Runs :
        Split(t) => runs[t].train_df # <<>> /\ runs[t].test_df # <<>>

\* the dates of the rows of frame df at the positions idx
DatesAt(df, idx) == {df[i].date : i \in idx}

\* C18: in every fold of the cross-validation a training run makes, the
\* latest training date is before the earliest validation date, also with
\* several groups whose rows share dates.
C18_FoldsOrdered ==
    \A t \in Runs :
        runs[t].pc = "validated" =>
            \A f \in 1..Len(runs[t].folds) :
                \A a \in DatesAt(runs[t].df, runs[t].folds[f].train_idx),
                   b \in DatesAt(runs[t].df, runs[t].folds[f].val_idx) : a < b

\* the run works on one group with 40 consecutive daily observations and
\* has split with test_days = 14
Scenario(t) ==
    /\ Split(t)
    /\ runs[t].raw_df = load_training_data(40, 1, 0)
    /\ runs[t].test_days = 14

C20_MinimumBeforeFit ==
    \A t \in Runs :
        runs[t].fits > 0 => Len(runs[t].train_df) >= MIN_TRAINING_SAMPLES

\* every step of train() before register_model has completed in the run
StepsCompleted(run) ==
    /\ Len(run.raw_df) >= MIN_TRAINING_SAMPLES
    /\ run.df = engineer_features(run.raw_df)
    /\ run.train_df # <<>> /\ run.test_df # <<>>
    /\ Len(run.folds) = run.cv_folds /\ run.cv_folds > 0
    /\ run.fits = run.cv_folds + 1
    /\ run.all_metrics # <<>>
    /\ run.version # -1
    /\ ModelPath(run.model_name, run.version) \in DOMAIN s3
    /\ run.error = "none"

\* C21: a registry row is inserted only by a run whose loading, minimum
\* check, feature engineering, split, cross-validation, final fit and upload
\* have all completed; a run that fails or is abandoned before leaves the
\* registry as it was.
C21_RegisterComesLast ==
    [][/\ ml_model' # ml_model =>
             \E t \in Runs :
                 /\ runs[t].pc = "saved" /\ runs'[t].pc = "done"
                 /\ StepsCompleted(runs[t])
                 /\ Len(ml_model') = Len(ml_model) + 1
                 /\ ml_model'[Len(ml_model')].version = runs[t].version
       /\ \A t \in Runs :
             (runs'[t].pc \in {"failed", "abandoned"} /\ runs[t].pc # runs'[t].pc)
                 => ml_model' = ml_model]_vars

\* one run has registered its model and another has failed or was abandoned
\* on the way
C21_Witness ==
    \E t1, t2 \in Runs :
        /\ runs[t1].pc = "done" /\ Len(ml_model) = 1
        /\ runs[t2].pc \in {"failed", "abandoned"}
        /\ runs[t2].raw_df # <<>>

\* ----------------------------------------------------------- claims: access
\* the callers that hold a valid access token of role admin
AdminCallers ==
    {c.email : c \in {x \in Credentials :
        x.token = "valid" /\ x.type = "access" /\ x.role = "admin"}}

\* C22: a request without a valid access token, with a refresh token or
\* with a role outside the endpoint's allowed set is rejected before the
\* handler runs and changes no state; promote_model changes the registry
\* only for a caller with a valid access token of role admin.
C22_OnlyAdminsPromote ==
    [][/\ (last' # last /\ last'.code \in {401, 403}) =>
             UNCHANGED <<registry, audit, sess, serving, training>>
       /\ \A s \in Sessions :
             (sess[s].pc = "idle" /\ sess'[s].pc = "selected")
                 => sess'[s].user \in AdminCallers
       /\ (\E k \in Keys : registry'[k].status # registry[k].status
                              /\ registry'[k].status # "staged") =>
             \E s \in Sessions :
                 /\ sess[s].pc = "returned"
                 /\ sess[s].user \in AdminCallers
                 /\ registry'[<<sess[s].name, sess[s].version>>].promoted_by
                        \in AdminCallers]_vars

\* a promote request was rejected with 401 or 403 while a staged model was
\* there to promote
C22_Witness ==
    /\ last.op = "promote" /\ last.code \in {401, 403}
    /\ \E k \in Keys : registry[k].status = "staged"
    /\ \E k \in Keys : registry[k].status = "prod"

\* --------------------------------------------------- claims: forecast cache
\* C23: a get_forecast response served from the cache is tagged with a model
\* that is, at the time it is served, an assigned prod model of a pair of the
\* requested (sku, region): an entry written before a promote or a change of
\* assignment committed is not served after it
C23_NoStaleVersion ==
    [][\A s \in Sessions, sku \in Skus, region \in RegionNames,
          sd \in Dates, ed \in Dates, ia \in BOOLEAN :
          LET cached == cache[ForecastCacheKey(sku, region, sd, ed, ia)] IN
          (ForecastCacheGet(s, sku, region, sd, ed, ia) /\ cached # NoResponse) =>
              \E l \in LocationsOf(region) : \E i \in AssignedProd(sku, l) :
                  assignments[i].model_id =
                      <<cached.model_name, cached.model_version>>]_vars

\* the 200 responses the database path of get_forecast can build for a
\* request in the current state
UncachedResponses(sku, region, sd, ed, ia) ==
    {[model_version |-> assignments[i].model_id[2],
      model_name |-> assignments[i].model_id[1],
      forecasts |-> ForecastPoints(sku, l, assignments[i].model_id[2], sd, ed, ia)] :
         <<l, i>> \in {li \in LocationsOf(region) \X DOMAIN assignments :
                          li[2] \in AssignedProd(sku, li[1])}}
    \cup {NoAssignmentResponse(sku, l, sd, ed, ia) :
             l \in {x \in LocationsOf(region) : AssignedProd(sku, x) = {}}}

\* C24: a response served from the cache, when the entry is one the database
\* path builds from the current data for a request with the same cache key,
\* is a response the database path builds for the parameters (sku, region,
\* start_date, end_date, include_actuals) of the request it is served to
C24_CacheMatchesUncached ==
    [][\A s \in Sessions, sku \in Skus, region \in RegionNames,
          sd \in Dates, ed \in Dates, ia \in BOOLEAN :
          LET cached == cache[ForecastCacheKey(sku, region, sd, ed, ia)] IN
          (/\ ForecastCacheGet(s, sku, region, sd, ed, ia)
           /\ cached # NoResponse
           /\ \E sd2 \in Dates, ed2 \in Dates, ia2 \in BOOLEAN :
                 /\ ForecastCacheKey(sku, region, sd2, ed2, ia2) =
                        ForecastCacheKey(sku, region, sd, ed, ia)
                 /\ cached \in UncachedResponses(sku, region, sd2, ed2, ia2)) =>
              cached \in UncachedResponses(sku, region, sd, ed, ia)]_vars

\* ------------------------------------------------------- claims: artifacts
\* C25: the object at the artifact reference of every registered model is
\* the model serialized by the training run that registered the row
C25_ArtifactIsOwn ==
    \A i \in 1..Len(ml_model) :
        /\ ml_model[i].artifact_s3_uri \in DOMAIN s3
        /\ \E t \in Runs :
              /\ runs[t].model_id = ml_model[i].id
              /\ s3[ml_model[i].artifact_s3_uri].model_pkl = t

\* ------------------------------------------------- claims: prod is kept
HasProd(n) == \E v \in Versions : registry[<<n, v>>].status = "prod"

\* C26: a committed promote leaves its model_name with a prod row, and a
\* model_name that has a prod row has one in every later state, whatever the
\* interleaving of the promote requests
C26_ProdIsKept ==
    [][\A n \in Names :
          /\ \A s \in Sessions :
                (PromoteCommit(s) /\ sess[s].name = n) => HasProd(n)'
          /\ HasProd(n) => HasProd(n)']_vars

\* a promote committed while another request, which has archived the row that
\* is prod now, has still to commit
C26_Witness ==
    /\ last = Finished("promote", 200, "staged", "prod")
    /\ \E s \in Sessions :
          /\ sess[s].pc = "returned"
          /\ \E k \in sess[s].locked : registry[k].status = "prod"

\* ----------------------------------------------------- claims: lag features
\* lags = [1, 7, 14, 28] and the column f"qty_lag_{lag}d" of each
LagDays == {1, 7, 14, 28}
LagColumn(lag, n) ==
    CASE n = 1 -> lag.qty_lag_1d
      [] n = 7 -> lag.qty_lag_7d
      [] n = 14 -> lag.qty_lag_14d
      [] n = 28 -> lag.qty_lag_28d

\* C27: in the output of engineer_features, qty_lag_Nd of a row dated d is
\* the quantity of the observation of the same group dated d - N, for N in
\* {1, 7, 14, 28}, also when the group's series has missing days
C27_LagIsCalendarDays ==
    \A t \in Runs : Engineered(t) =>
        \A k \in 1..Len(runs[t].df) : \A n \in LagDays :
            \E i \in 1..Len(runs[t].raw_df) :
                /\ SameGroup(runs[t].raw_df[i], runs[t].df[k])
                /\ runs[t].raw_df[i].date = runs[t].df[k].date - n
                /\ LagColumn(runs[t].df[k].features.lag, n) =
                       <<runs[t].raw_df[i].quantity>>

\* ------------------------------------------------------ claims: dropped rows
\* windows = [7, 14, 28]
Windows == {7, 14, 28}

\* every lag column and every rolling-mean column of the row is defined
LagAndMeanDefined(f) ==
    /\ \A c \in DOMAIN f.lag : f.lag[c] # NaN
    /\ f.rolling.qty_rolling_mean_7d # NaN
    /\ f.rolling.qty_rolling_mean_14d # NaN
    /\ f.rolling.qty_rolling_mean_28d # NaN

\* the rows of frame df that belong to the group of row r
GroupRowsOf(df, r) == {i \in 1..Len(df) : SameGroup(df[i], r)}

\* the output rows that come from input row r
OutputOf(df, r) == {k \in 1..Len(df) : SameGroup(df[k], r) /\ df[k].date = r.date}

\* C28: engineer_features keeps an input row exactly when all its lag and
\* rolling-mean features are defined, which is exactly when 28 rows of its
\* group precede it: a group of n rows keeps max(0, n - 28) of them.  A kept
\* row carries the features as they were computed, none of them null and no
\* rolling std filled in for a window of fewer than two values
C28_DroppedExactly ==
    \A t \in Runs : Engineered(t) =>
        LET raw == runs[t].raw_df
            df == runs[t].df
        IN  /\ \A i \in 1..Len(raw) :
                  LET f == QuantityFeatures(raw, i)
                      out == OutputOf(df, raw[i])
                  IN  /\ Cardinality(out) <= 1
                      /\ (out # {}) <=> LagAndMeanDefined(f)
                      /\ (out # {}) <=> Len(GroupSeries(raw, i)) > 28
                      /\ \A k \in out :
                            /\ df[k].quantity = raw[i].quantity
                            /\ df[k].features = f
                            /\ ~HasNaN(df[k].features)
                            /\ \A w \in Windows :
                                  Len(RollingWindow(GroupSeries(raw, i), w)) >= 2
                      /\ Cardinality(GroupRowsOf(df, raw[i])) =
                            IF Cardinality(GroupRowsOf(raw, raw[i])) > 28
                            THEN Cardinality(GroupRowsOf(raw, raw[i])) - 28 ELSE 0
            /\ \A k \in 1..Len(df) : \E i \in 1..Len(raw) : k \in OutputOf(df, raw[i])

\* features were engineered for two groups of different length: rows were
\* kept, and the 28th row of a group was dropped
C28_Witness ==
    \E t \in Runs :
        /\ Engineered(t)
        /\ runs[t].df # <<>>
        /\ \E i, j \in 1..Len(runs[t].raw_df) :
              /\ Len(GroupSeries(runs[t].raw_df, i)) = 28
              /\ OutputOf(runs[t].df, runs[t].raw_df[i]) = {}
              /\ Cardinality(GroupRowsOf(runs[t].raw_df, runs[t].raw_df[i])) #
                    Cardinality(GroupRowsOf(runs[t].raw_df, runs[t].raw_df[j]))

\* ------------------------------------------------------- claims: ingestion
\* the committed fact_sales rows of raw event e
RowsOfEvent(e) ==
    {i \in 1..Len(fact_sales) : fact_sales[i].order_id = RawDoc(e).order_id}

\* C29: when an ingest_sales run has completed, after whatever runs, crashes
\* and re-runs, every raw event with resolvable dimensions has exactly one
\* committed fact_sales row, and every event marked processed has its row
C29_ExactlyOnce ==
    ingest.pc = "done" =>
        \A e \in RawEvents :
            /\ AllDimensions(DimensionKeys(RawDoc(e))) =>
                  Cardinality(RowsOfEvent(e)) = 1
            /\ raw_sales[e].processed => RowsOfEvent(e) # {}

\* ------------------------------------------------- claims: holiday features
\* C30: in the frame add_holiday_features returns, days_to_holiday and
\* days_since_holiday of every row are integers of at most 30: the distance
\* to the next (since the last) holiday when it is at most 30, and the cap 30
\* when it is larger or when the calendar has no later (earlier) holiday
C30_DistancesCapped ==
    [][\A from \in 1..MaxDays, n \in 1..MaxRows, holiday_dates \in Calendars :
          AddHolidayFeatures(from, n, holiday_dates) =>
              /\ Len(holiday_df') = n
              /\ \A i \in 1..n :
                    LET row == holiday_df'[i]
                        later == {h \in holiday_dates : h > row.date}
                        earlier == {h \in holiday_dates : h < row.date}
                    IN  /\ row.date = from + i - 1
                        /\ row.days_to_holiday \in 1..30
                        /\ row.days_since_holiday \in 1..30
                        /\ row.days_to_holiday =
                              IF \E h \in later : h - row.date <= 30
                              THEN SetMin(later) - row.date ELSE 30
                        /\ row.days_since_holiday =
                              IF \E h \in earlier : row.date - h <= 30
                              THEN row.date - SetMax(earlier) ELSE 30]_vars

\* a frame with a row on the calendar's only holiday, which has no later and
\* no earlier holiday, followed by a row one day after it
C30_Witness ==
    /\ Len(holiday_df) = 2
    /\ holiday_df[1].is_holiday = 1
    /\ holiday_df[1].days_to_holiday = 30
    /\ holiday_df[1].days_since_holiday = 30
    /\ holiday_df[2].days_since_holiday = 1
    /\ holiday_df[2].days_to_holiday = 30
====
